---- MODULE Spec2Model ----
(***************************************************************************)
(* Model of the API-link directory (models/ApiLink, routes/apilinks), the  *)
(* public resolver (routes/public) and the direct live-score reads         *)
(* (routes/livescore) of 16score-vmix-server.                              *)
(*                                                                         *)
(* Every handler is an async function: between two awaits it runs without  *)
(* interruption, and each await is one operation of the MongoDB store.     *)
(* One action of the model is therefore one store operation together with  *)
(* the synchronous code that follows it up to the next await (or the       *)
(* response).  The first action of a handler also holds the synchronous    *)
(* validation that precedes its first await.                               *)
(*                                                                         *)
(* Strings that the code takes apart (matchId, collection names) are       *)
(* sequences of one-character strings; all other strings are atoms.        *)
(***************************************************************************)
EXTENDS Integers, Sequences, FiniteSets, TLC

VARIABLES
    links,      \* the apilinks collection: a set of ApiLink documents
    colls,      \* the match collections: collection name -> set of snapshots
    now,        \* the server clock (what new Date() returns)
    nextId,     \* the next _id the store hands out
    started,    \* number of requests received so far
    pc,         \* per request slot: the await the handler is suspended at
    rq,         \* per request slot: the request (route, caller, params, body)
    apiLink,    \* per request slot: the handler's local `apiLink` document
    gen,        \* per request slot: create's `linkId`, `attempts`
    resp        \* per request slot: the response sent

vars == <<links, colls, now, nextId, started, pc, rq, apiLink, gen, resp>>

-----------------------------------------------------------------------------
(* Bounds of the model *)

\* requests received in one behaviour
MaxRequests == 3
\* last tick of the server clock
MaxTime == 2
\* snapshots the external feed writes in one behaviour
MaxFeed == 2

\* request slots: requests that can be in flight at the same time
Procs == {"p1", "p2"}
\* authenticated callers (req.userId set by authenticateToken)
Users == {"u1", "u2"}
\* outcomes of generateLinkId; two, so that candidates collide
LinkIds == {"Ab3", "Zk9"}

-----------------------------------------------------------------------------
(* Strings as sequences of characters *)

Whitespace == {" "}

RECURSIVE TrimStart(_)
TrimStart(s) ==
    IF s # <<>> /\ Head(s) \in Whitespace THEN TrimStart(Tail(s)) ELSE s

RECURSIVE TrimEnd(_)
TrimEnd(s) ==
    IF s # <<>> /\ s[Len(s)] \in Whitespace
    THEN TrimEnd(SubSeq(s, 1, Len(s) - 1))
    ELSE s

\* String.prototype.trim
TrimLeft(s) == TrimStart(s)
Trim(s) == TrimEnd(TrimStart(s))

\* str.replace(/-/g, '_')
ReplaceHyphens(s) == [i \in 1..Len(s) |-> IF s[i] = "-" THEN "_" ELSE s[i]]

MatchPrefix == <<"m", "a", "t", "c", "h", "_">>

\* `match_${id.replace(/-/g, '_')}`
CollectionNameOnlyPrefix(id) == MatchPrefix
CollectionName(id) == MatchPrefix \o ReplaceHyphens(id)

-----------------------------------------------------------------------------
(* Inputs *)

M1 == <<"m", "-", "1">>
M1u == <<"m", "_", "1">>
M1padded == <<" ", "m", "-", "1", " ">>
Blank == <<" ">>
Empty == <<>>

\* matchId as it arrives in a request body; Empty is also the missing field
\* (undefined and '' take the same branch of `!matchId`)
BodyMatchIds == {Empty, Blank, M1, M1padded, M1u}
\* matchId as a path parameter (never empty)
PathMatchIds == {M1, M1padded, M1u}

TypeEnum == {"full", "alive_status", "points_table"}
\* type as it arrives; "" is the missing field
BodyTypes == TypeEnum \cup {"bogus", ""}

\* isActive as it arrives in the body of PATCH /status
BodyFlags ==
    { [typeof |-> "boolean", value |-> TRUE],
      [typeof |-> "boolean", value |-> FALSE],
      [typeof |-> "string", value |-> TRUE],
      [typeof |-> "undefined", value |-> FALSE] }

-----------------------------------------------------------------------------
(* The ApiLink model *)

\* lastAccessed: { default: null }
NullDate == 0

\* the document ApiLink.create builds, with the schema's defaults
NewApiLink(id, userId, linkId, matchId, type) ==
    [ id |-> id, userId |-> userId, linkId |-> linkId, matchId |-> matchId,
      type |-> type, isActive |-> TRUE, lastAccessed |-> NullDate,
      accessCount |-> 0 ]

\* the schema's validators: required strings are not empty, type is in the enum
Validates(doc) ==
    /\ doc.linkId # ""
    /\ doc.matchId # <<>>
    /\ doc.type \in TypeEnum

\* the unique index on linkId refuses a second document with the same linkId
DuplicateKeyNoIndex(dir, doc) == FALSE
DuplicateKey(dir, doc) == \E d \in dir : d.linkId = doc.linkId

\* ApiLink.findOne({ linkId })
FindByLinkId(dir, linkId) == {d \in dir : d.linkId = linkId}

\* ApiLink.findOne({ linkId, isActive: true })
FindAnyStatus(dir, linkId) == {d \in dir : d.linkId = linkId}
FindActive(dir, linkId) == {d \in dir : d.linkId = linkId /\ d.isActive = TRUE}

\* ApiLink.findOne({ linkId, userId })
FindAnyOwner(dir, linkId, userId) == {d \in dir : d.linkId = linkId}
FindOwned(dir, linkId, userId) ==
    {d \in dir : d.linkId = linkId /\ d.userId = userId}

\* ApiLink.find({ userId })
FindByUser(dir, userId) == {d \in dir : d.userId = userId}

\* A handler's local document: what findOne returned, and the paths the
\* handler has assigned since (Mongoose's modified paths).
NoLink == [found |-> FALSE]
Loaded(d) == [found |-> TRUE, doc |-> d, modified |-> {}]

\* doc[path] = value: the path is modified when the value differs
SetPathLost(l, path, value) == l
SetPath(l, path, value) ==
    [l EXCEPT !.doc = [@ EXCEPT ![path] = value],
              !.modified = IF l.doc[path] = value THEN @ ELSE @ \cup {path}]

AllPaths == {"userId", "linkId", "matchId", "type", "isActive",
             "lastAccessed", "accessCount"}

\* the update doc.save() sends: updateOne({ _id }, { $set: <modified paths> })
WritePathsWhole(l) == AllPaths
WritePaths(l) == l.modified

SaveOutcome(dir, l) ==
    IF ~Validates(l.doc) THEN "ValidationError"
    ELSE IF ~\E d \in dir : d.id = l.doc.id THEN "DocumentNotFoundError"
    ELSE "ok"

\* what the save leaves in the collection
SaveStoreWhole(dir, l) == {IF d.id = l.doc.id THEN l.doc ELSE d : d \in dir}
SaveStore(dir, l) ==
    { IF d.id = l.doc.id
      THEN [f \in DOMAIN d |-> IF f \in WritePaths(l) THEN l.doc[f] ELSE d[f]]
      ELSE d : d \in dir }

\* ApiLink.findByIdAndDelete(_id)
DeleteNone(dir, id) == dir
DeleteById(dir, id) == {d \in dir : d.id # id}

-----------------------------------------------------------------------------
(* Match snapshots, written by the external scoring feed *)

EmptyList == [json |-> "array", items |-> <<>>]
EmptyObject == [json |-> "object", keys |-> {}]

Rows == [json |-> "array", items |-> <<"teamA">>]
Stats == [json |-> "array", items |-> <<"alive">>]
Summary == [json |-> "object", keys |-> {"total"}]

\* a snapshot is a document: a function on the fields it has
SnapFull ==
    [ matchId |-> M1, timestamp |-> 1, pointsTable |-> Rows,
      TeamStats1 |-> Stats, MatchSummary1 |-> Summary ]
SnapBare == [matchId |-> M1, timestamp |-> 2]
FeedSnapshots == {SnapFull, SnapBare}

\* the collections the feed writes
FeedCollections == {CollectionName(M1)}

\* number of snapshots stored
RECURSIVE CountSnapshots(_, _)
CountSnapshots(store, names) ==
    IF names = {} THEN 0
    ELSE LET n == CHOOSE x \in names : TRUE
         IN Cardinality(store[n]) + CountSnapshots(store, names \ {n})

\* collection.findOne({}, { sort: { timestamp: -1 } }): the candidates
Unsorted(snaps) == snaps
Latest(snaps) ==
    {s \in snaps : \A t \in snaps : t.timestamp <= s.timestamp}

\* values of a snapshot field that JavaScript takes as false (an absent field
\* reads as undefined, which is false too; an empty array is not)
JsonNull == [json |-> "null"]
JsonZero == [json |-> "number", digits |-> <<"0">>]
JsonFalse == [json |-> "boolean", value |-> FALSE]
EmptyString == [json |-> "string", chars |-> <<>>]
Falsy == {JsonNull, JsonZero, JsonFalse, EmptyString}

\* doc.field || fallback
OrElse(doc, field, fallback) ==
    IF field \in DOMAIN doc /\ doc[field] \notin Falsy
    THEN doc[field]
    ELSE fallback

\* "Extract data based on link type"
Project(latestMatch, type) ==
    CASE type = "points_table" ->
           [ pointsTable |-> OrElse(latestMatch, "pointsTable", EmptyList),
             matchSummary |-> OrElse(latestMatch, "MatchSummary1", EmptyObject) ]
      [] type = "alive_status" ->
           [ teamStats |-> OrElse(latestMatch, "TeamStats1", EmptyList),
             matchSummary |-> OrElse(latestMatch, "MatchSummary1", EmptyObject) ]
      [] type = "full" -> latestMatch
      [] OTHER -> EmptyObject

-----------------------------------------------------------------------------
(* Responses *)

NoResponse == [status |-> 0]

Failure(status, error) ==
    [status |-> status, body |-> [success |-> FALSE, error |-> error]]

NotFound == Failure(404, "Not found")
LinkNotFound == Failure(404, "API link not found")
MatchDataNotFound == Failure(404, "Match data not found")
MatchNotFound == Failure(404, "Match not found")
NoMatchData == Failure(404, "No match data found")
FieldsRequired == Failure(400, "Match ID and type are required")
InvalidType == Failure(400, "Invalid type. Use: full, alive_status, or points_table")
InvalidTypeParameter ==
    Failure(400, "Invalid type parameter. Use 'alive_status' or 'points_table'")
NotBoolean == Failure(400, "isActive must be a boolean value")
NoUniqueLinkId == Failure(500, "Failed to generate unique link ID")
ServerError == Failure(500, "Server Error")

Created(doc) ==
    [status |-> 201, body |-> [success |-> TRUE, data |-> doc]]
Listed(docs) ==
    [ status |-> 200,
      body |-> [ success |-> TRUE, count |-> Cardinality(docs),
                 data |-> [json |-> "array", items |-> docs] ] ]
Deleted ==
    [ status |-> 200,
      body |-> [success |-> TRUE, message |-> "API link deleted successfully"] ]
Updated(doc) ==
    [ status |-> 200,
      body |-> [ success |-> TRUE, data |-> doc,
                 message |-> "API link updated successfully" ] ]
StatusChanged(doc, on) ==
    [ status |-> 200,
      body |-> [ success |-> TRUE, data |-> doc,
                 message |-> IF on THEN "API link enabled successfully"
                                   ELSE "API link disabled successfully" ] ]
MatchData(latestMatch, data) ==
    [ status |-> 200,
      body |-> [ success |-> TRUE, matchId |-> latestMatch.matchId,
                 timestamp |-> latestMatch.timestamp, data |-> data ] ]

-----------------------------------------------------------------------------
(* Requests and the steps of a handler *)

NoUser == ""
NoFlag == [typeof |-> "undefined", value |-> FALSE]
NoGen == [linkId |-> "", attempts |-> 0]

Request(route, userId, linkId, matchId, type, isActive) ==
    [ route |-> route, userId |-> userId, linkId |-> linkId,
      matchId |-> matchId, type |-> type, isActive |-> isActive ]

NoRequest == Request("", NoUser, "", Empty, "", NoFlag)

\* a request arrives in a free slot
Receive(p, r) ==
    /\ pc[p] = "idle"
    /\ started < MaxRequests
    /\ started' = started + 1
    /\ rq' = [rq EXCEPT ![p] = r]

\* the handler resumes after the await it was suspended at
Resume(p, label) ==
    /\ pc[p] = label
    /\ UNCHANGED <<started, rq>>

Step(p, label, l, g, r) ==
    /\ pc' = [pc EXCEPT ![p] = label]
    /\ apiLink' = [apiLink EXCEPT ![p] = l]
    /\ gen' = [gen EXCEPT ![p] = g]
    /\ resp' = [resp EXCEPT ![p] = r]

\* the handler suspends at its next await
Await(p, label, l) == Step(p, label, l, NoGen, NoResponse)

\* the handler sends its response and ends
Reply(p, r) == Step(p, "idle", NoLink, NoGen, r)

\* the state of the server with `dir` in the apilinks collection and `store`
\* as the match collections, before any request of the behaviour arrives
Start(dir, store) ==
    /\ links = dir
    /\ colls = store
    /\ now = 1
    /\ nextId = Cardinality(dir) + 1
    /\ started = 0
    /\ pc = [p \in Procs |-> "idle"]
    /\ rq = [p \in Procs |-> NoRequest]
    /\ apiLink = [p \in Procs |-> NoLink]
    /\ gen = [p \in Procs |-> NoGen]
    /\ resp = [p \in Procs |-> NoResponse]

NoCollections == [n \in {} |-> {}]

\* a fresh database
Init == Start({}, NoCollections)

-----------------------------------------------------------------------------
(* The environment: the clock and the scoring feed *)

Tick ==
    /\ now < MaxTime
    /\ now' = now + 1
    /\ UNCHANGED <<links, colls, nextId, started, pc, rq, apiLink, gen, resp>>

\* the documents of a collection; a collection that does not exist has none
DocumentsNone(name) == {}
Documents(name) == IF name \in DOMAIN colls THEN colls[name] ELSE {}

\* the feed creates a match collection
FeedCreate(name) ==
    /\ name \notin DOMAIN colls
    /\ colls' = [n \in DOMAIN colls \cup {name} |->
                    IF n = name THEN {} ELSE colls[n]]
    /\ UNCHANGED <<links, now, nextId, started, pc, rq, apiLink, gen, resp>>

\* the feed writes a snapshot (creating the collection when it is the first)
FeedInsert(name, snap) ==
    /\ CountSnapshots(colls, DOMAIN colls) < MaxFeed
    /\ snap \notin Documents(name)
    /\ colls' = [n \in DOMAIN colls \cup {name} |->
                    IF n = name THEN Documents(n) \cup {snap} ELSE colls[n]]
    /\ UNCHANGED <<links, now, nextId, started, pc, rq, apiLink, gen, resp>>

-----------------------------------------------------------------------------
(* GET /api/public/:linkId *)

\* apiLink.accessCount += 1; apiLink.lastAccessed = new Date()
TouchDateOnly(l, date) == SetPath(l, "lastAccessed", date)
Touch(l, date) ==
    SetPath(SetPath(l, "accessCount", l.doc.accessCount + 1),
            "lastAccessed", date)

\* collectionName of the resolver
PublicCollection(l) == CollectionName(Trim(l.doc.matchId))

PublicFind(p, linkId) ==
    /\ Receive(p, Request("GET /api/public/:linkId", NoUser, linkId, Empty,
                          "", NoFlag))
    /\ LET hits == FindActive(links, linkId)
       IN IF hits = {}
          THEN Reply(p, NotFound)
          ELSE \E d \in hits : Await(p, "public.save", Touch(Loaded(d), now))
    /\ UNCHANGED <<links, colls, now, nextId>>

PublicSave(p) ==
    /\ Resume(p, "public.save")
    /\ IF SaveOutcome(links, apiLink[p]) = "ok"
       THEN /\ links' = SaveStore(links, apiLink[p])
            /\ Await(p, "public.listCollections",
                     [apiLink[p] EXCEPT !.modified = {}])
       ELSE /\ links' = links
            /\ Reply(p, ServerError)
    /\ UNCHANGED <<colls, now, nextId>>

PublicList(p) ==
    /\ Resume(p, "public.listCollections")
    /\ IF PublicCollection(apiLink[p]) \in DOMAIN colls
       THEN Await(p, "public.findOne", apiLink[p])
       ELSE Reply(p, MatchDataNotFound)
    /\ UNCHANGED <<links, colls, now, nextId>>

PublicFetch(p) ==
    /\ Resume(p, "public.findOne")
    /\ LET snaps == Documents(PublicCollection(apiLink[p]))
       IN IF snaps = {}
          THEN Reply(p, NoMatchData)
          ELSE \E latestMatch \in Latest(snaps) :
                 Reply(p, MatchData(latestMatch,
                                    Project(latestMatch, apiLink[p].doc.type)))
    /\ UNCHANGED <<links, colls, now, nextId>>

-----------------------------------------------------------------------------
(* POST /api/apilinks *)

\* while (!isUnique && attempts < 10)
MaxAttempts == 10

\* "Validate required fields", "Validate type"
BodyErrorAnyType(matchId, type) ==
    IF matchId = Empty \/ type = "" THEN FieldsRequired ELSE NoResponse
BodyError(matchId, type) ==
    IF matchId = Empty \/ type = "" THEN FieldsRequired
    ELSE IF type \notin TypeEnum THEN InvalidType
    ELSE NoResponse

CreateLink(p, userId, matchId, type) ==
    /\ Receive(p, Request("POST /api/apilinks", userId, "", matchId, type,
                          NoFlag))
    /\ IF BodyError(matchId, type) # NoResponse
       THEN Reply(p, BodyError(matchId, type))
       ELSE Await(p, "create.findOne", NoLink)
    /\ UNCHANGED <<links, colls, now, nextId>>

\* the loop condition, evaluated after `attempts++`
LoopsOnceMore(isUnique, attempts) == ~isUnique /\ attempts <= MaxAttempts
Loops(isUnique, attempts) == ~isUnique /\ attempts < MaxAttempts

\* one turn of the loop: generateLinkId() gives `linkId`, findOne looks it up
CreateAttempt(p, linkId) ==
    /\ Resume(p, "create.findOne")
    /\ LET isUnique == FindByLinkId(links, linkId) = {}
           attempts == gen[p].attempts + 1
           g == [linkId |-> linkId, attempts |-> attempts]
       IN IF Loops(isUnique, attempts)
          THEN Step(p, "create.findOne", NoLink, g, NoResponse)
          ELSE IF isUnique
          THEN Step(p, "create.insert", NoLink, g, NoResponse)
          ELSE Reply(p, NoUniqueLinkId)
    /\ UNCHANGED <<links, colls, now, nextId>>

\* ApiLink.create({ userId, linkId, matchId: matchId.trim(), type })
CreateInsert(p) ==
    /\ Resume(p, "create.insert")
    /\ LET doc == NewApiLink(nextId, rq[p].userId, gen[p].linkId,
                             Trim(rq[p].matchId), rq[p].type)
       IN IF Validates(doc) /\ ~DuplicateKey(links, doc)
          THEN /\ links' = links \cup {doc}
               /\ nextId' = nextId + 1
               /\ Reply(p, Created(doc))
          ELSE /\ UNCHANGED <<links, nextId>>
               /\ Reply(p, ServerError)
    /\ UNCHANGED <<colls, now>>

-----------------------------------------------------------------------------
(* GET /api/apilinks *)

ListLinks(p, userId) ==
    /\ Receive(p, Request("GET /api/apilinks", userId, "", Empty, "", NoFlag))
    /\ Reply(p, Listed(FindByUser(links, userId)))
    /\ UNCHANGED <<links, colls, now, nextId>>

-----------------------------------------------------------------------------------------------------------------------------------------------------
(* DELETE /api/apilinks/:linkId *)

DeleteFind(p, userId, linkId) ==
    /\ Receive(p, Request("DELETE /api/apilinks/:linkId", userId, linkId,
                          Empty, "", NoFlag))
    /\ LET hits == FindOwned(links, linkId, userId)
       IN IF hits = {}
          THEN Reply(p, LinkNotFound)
          ELSE \E d \in hits :
                 Await(p, "delete.findByIdAndDelete", Loaded(d))
    /\ UNCHANGED <<links, colls, now, nextId>>

DeleteRemove(p) ==
    /\ Resume(p, "delete.findByIdAndDelete")
    /\ links' = DeleteById(links, apiLink[p].doc.id)
    /\ Reply(p, Deleted)
    /\ UNCHANGED <<colls, now, nextId>>

-----------------------------------------------------------------------------
(* PATCH /api/apilinks/:linkId/update *)

\* apiLink.matchId = matchId.trim(); apiLink.type = type
EditResetting(l, matchId, type) ==
    SetPath(SetPath(SetPath(l, "matchId", Trim(matchId)), "type", type),
            "accessCount", 0)
Edit(l, matchId, type) ==
    SetPath(SetPath(l, "matchId", Trim(matchId)), "type", type)

UpdateFind(p, userId, linkId, matchId, type) ==
    /\ Receive(p, Request("PATCH /api/apilinks/:linkId/update", userId,
                          linkId, matchId, type, NoFlag))
    /\ IF BodyError(matchId, type) # NoResponse
       THEN Reply(p, BodyError(matchId, type))
       ELSE LET hits == FindOwned(links, linkId, userId)
            IN IF hits = {}
               THEN Reply(p, LinkNotFound)
               ELSE \E d \in hits :
                      Await(p, "update.save", Edit(Loaded(d), matchId, type))
    /\ UNCHANGED <<links, colls, now, nextId>>

UpdateSave(p) ==
    /\ Resume(p, "update.save")
    /\ IF SaveOutcome(links, apiLink[p]) = "ok"
       THEN /\ links' = SaveStore(links, apiLink[p])
            /\ Reply(p, Updated(apiLink[p].doc))
       ELSE /\ links' = links
            /\ Reply(p, ServerError)
    /\ UNCHANGED <<colls, now, nextId>>

-----------------------------------------------------------------------------
(* PATCH /api/apilinks/:linkId/toggle *)

\* apiLink.isActive = !apiLink.isActive
FlipOff(l) == SetPath(l, "isActive", FALSE)
Flip(l) == SetPath(l, "isActive", ~l.doc.isActive)

ToggleFind(p, userId, linkId) ==
    /\ Receive(p, Request("PATCH /api/apilinks/:linkId/toggle", userId,
                          linkId, Empty, "", NoFlag))
    /\ LET hits == FindOwned(links, linkId, userId)
       IN IF hits = {}
          THEN Reply(p, LinkNotFound)
          ELSE \E d \in hits : Await(p, "toggle.save", Flip(Loaded(d)))
    /\ UNCHANGED <<links, colls, now, nextId>>

ToggleSave(p) ==
    /\ Resume(p, "toggle.save")
    /\ IF SaveOutcome(links, apiLink[p]) = "ok"
       THEN /\ links' = SaveStore(links, apiLink[p])
            /\ Reply(p, StatusChanged(apiLink[p].doc,
                                      apiLink[p].doc.isActive))
       ELSE /\ links' = links
            /\ Reply(p, ServerError)
    /\ UNCHANGED <<colls, now, nextId>>

-----------------------------------------------------------------------------
(* PATCH /api/apilinks/:linkId/status *)

StatusFind(p, userId, linkId, isActive) ==
    /\ Receive(p, Request("PATCH /api/apilinks/:linkId/status", userId,
                          linkId, Empty, "", isActive))
    /\ IF isActive.typeof # "boolean"
       THEN Reply(p, NotBoolean)
       ELSE LET hits == FindOwned(links, linkId, userId)
            IN IF hits = {}
               THEN Reply(p, LinkNotFound)
               ELSE \E d \in hits :
                      Await(p, "status.save",
                            SetPath(Loaded(d), "isActive", isActive.value))
    /\ UNCHANGED <<links, colls, now, nextId>>

StatusSave(p) ==
    /\ Resume(p, "status.save")
    /\ IF SaveOutcome(links, apiLink[p]) = "ok"
       THEN /\ links' = SaveStore(links, apiLink[p])
            /\ Reply(p, StatusChanged(apiLink[p].doc, rq[p].isActive.value))
       ELSE /\ links' = links
            /\ Reply(p, ServerError)
    /\ UNCHANGED <<colls, now, nextId>>

-----------------------------------------------------------------------------
(* GET /api/livescore/:matchId and GET /api/livescore/:matchId/full *)

\* the collection of a direct read: the path parameter is not trimmed
LiveCollection(matchId) == CollectionName(matchId)

LiveList(p, matchId, type) ==
    /\ Receive(p, Request("GET /api/livescore/:matchId", NoUser, "", matchId,
                          type, NoFlag))
    /\ IF type \notin {"alive_status", "points_table"}
       THEN Reply(p, InvalidTypeParameter)
       ELSE IF LiveCollection(matchId) \notin DOMAIN colls
       THEN Reply(p, MatchNotFound)
       ELSE Await(p, "live.findOne", NoLink)
    /\ UNCHANGED <<links, colls, now, nextId>>

FullList(p, matchId) ==
    /\ Receive(p, Request("GET /api/livescore/:matchId/full", NoUser, "",
                          matchId, "full", NoFlag))
    /\ IF LiveCollection(matchId) \notin DOMAIN colls
       THEN Reply(p, MatchNotFound)
       ELSE Await(p, "live.findOne", NoLink)
    /\ UNCHANGED <<links, colls, now, nextId>>

LiveFetch(p) ==
    /\ Resume(p, "live.findOne")
    /\ LET snaps == Documents(LiveCollection(rq[p].matchId))
       IN IF snaps = {}
          THEN Reply(p, NoMatchData)
          ELSE \E latestMatch \in Latest(snaps) :
                 Reply(p, MatchData(latestMatch,
                                    Project(latestMatch, rq[p].type)))
    /\ UNCHANGED <<links, colls, now, nextId>>

-----------------------------------------------------------------------------

(* The whole server: every route with every input *)

Next ==
    \/ Tick
    \/ \E n \in FeedCollections : FeedCreate(n)
    \/ \E n \in FeedCollections, s \in FeedSnapshots : FeedInsert(n, s)
    \/ \E p \in Procs, t \in LinkIds : PublicFind(p, t)
    \/ \E p \in Procs : PublicSave(p)
    \/ \E p \in Procs : PublicList(p)
    \/ \E p \in Procs : PublicFetch(p)
    \/ \E p \in Procs, u \in Users, m \in BodyMatchIds, t \in BodyTypes :
          CreateLink(p, u, m, t)
    \/ \E p \in Procs, t \in LinkIds : CreateAttempt(p, t)
    \/ \E p \in Procs : CreateInsert(p)
    \/ \E p \in Procs, u \in Users : ListLinks(p, u)
    \/ \E p \in Procs, u \in Users, t \in LinkIds : DeleteFind(p, u, t)
    \/ \E p \in Procs : DeleteRemove(p)
    \/ \E p \in Procs, u \in Users, t \in LinkIds, m \in BodyMatchIds,
          ty \in BodyTypes : UpdateFind(p, u, t, m, ty)
    \/ \E p \in Procs : UpdateSave(p)
    \/ \E p \in Procs, u \in Users, t \in LinkIds : ToggleFind(p, u, t)
    \/ \E p \in Procs : ToggleSave(p)
    \/ \E p \in Procs, u \in Users, t \in LinkIds, f \in BodyFlags :
          StatusFind(p, u, t, f)
    \/ \E p \in Procs : StatusSave(p)
    \/ \E p \in Procs, m \in PathMatchIds, t \in BodyTypes : LiveList(p, m, t)
    \/ \E p \in Procs, m \in PathMatchIds : FullList(p, m)
    \/ \E p \in Procs : LiveFetch(p)

Spec == Init /\ [][Next]_vars

-----------------------------------------------------------------------------
(* Link creation on a fresh database, by both users at the same time *)

CreateBodies ==
    { [matchId |-> M1padded, type |-> "full"],
      [matchId |-> M1, type |-> "points_table"],
      [matchId |-> Blank, type |-> "full"],
      [matchId |-> Empty, type |-> "full"],
      [matchId |-> M1, type |-> "bogus"] }

NextCreate ==
    \/ \E p \in Procs, u \in Users, b \in CreateBodies :
          CreateLink(p, u, b.matchId, b.type)
    \/ \E p \in Procs, t \in LinkIds : CreateAttempt(p, t)
    \/ \E p \in Procs : CreateInsert(p)

SpecCreate == Init /\ [][NextCreate]_vars

-----------------------------------------------------------------------------
(* A database that holds one link of user u1, as POST /api/apilinks leaves it *)

SeedLink == NewApiLink(1, "u1", "Ab3", M1, "points_table")

InitSeeded == Start({SeedLink}, NoCollections)

(* Public resolution of the link while its owner enables and disables it,  *)
(* the feed writes and the clock advances                                  *)

NextResolve ==
    \/ Tick
    \/ \E n \in FeedCollections : FeedCreate(n)
    \/ \E n \in FeedCollections, s \in FeedSnapshots : FeedInsert(n, s)
    \/ \E p \in Procs, t \in LinkIds : PublicFind(p, t)
    \/ \E p \in Procs : PublicSave(p)
    \/ \E p \in Procs : PublicList(p)
    \/ \E p \in Procs : PublicFetch(p)
    \/ \E p \in Procs : ToggleFind(p, "u1", "Ab3")
    \/ \E p \in Procs : ToggleSave(p)
    \/ \E p \in Procs, f \in BodyFlags : StatusFind(p, "u1", "Ab3", f)
    \/ \E p \in Procs : StatusSave(p)

SpecResolve == InitSeeded /\ [][NextResolve]_vars

-----------------------------------------------------------------------------
(* The owner u1 and another user u2 working on the link, next to public and  *)
(* direct reads                                                              *)

UpdateBodies ==
    { [matchId |-> M1padded, type |-> "full"],
      [matchId |-> M1u, type |-> "alive_status"],
      [matchId |-> M1, type |-> ""] }

NextOwner ==
    \/ \E p \in Procs : PublicFind(p, "Ab3")
    \/ \E p \in Procs : PublicSave(p)
    \/ \E p \in Procs : PublicList(p)
    \/ \E p \in Procs : PublicFetch(p)
    \/ \E p \in Procs : ListLinks(p, "u1")
    \/ \E p \in Procs, u \in Users : DeleteFind(p, u, "Ab3")
    \/ \E p \in Procs : DeleteRemove(p)
    \/ \E p \in Procs, u \in Users, b \in UpdateBodies :
          UpdateFind(p, u, "Ab3", b.matchId, b.type)
    \/ \E p \in Procs : UpdateSave(p)
    \/ \E p \in Procs, u \in Users : ToggleFind(p, u, "Ab3")
    \/ \E p \in Procs : ToggleSave(p)
    \/ \E p \in Procs, u \in Users, f \in BodyFlags : StatusFind(p, u, "Ab3", f)
    \/ \E p \in Procs : StatusSave(p)
    \/ \E p \in Procs : LiveList(p, M1, "points_table")
    \/ \E p \in Procs : FullList(p, M1)
    \/ \E p \in Procs : LiveFetch(p)

InitOwner ==
    \E store \in {NoCollections, [n \in FeedCollections |-> {SnapFull}]} :
        Start({SeedLink}, store)

SpecOwner == InitOwner /\ [][NextOwner]_vars

-----------------------------------------------------------------------------
(* Links created and updated with padded and unpadded matchIds, and resolved *)

PaddedBodies ==
    { [matchId |-> M1padded, type |-> "points_table"],
      [matchId |-> M1, type |-> "points_table"],
      [matchId |-> Blank, type |-> "full"],
      [matchId |-> M1u, type |-> "full"] }

NextTrim ==
    \/ \E p \in Procs, b \in PaddedBodies :
          CreateLink(p, "u1", b.matchId, b.type)
    \/ \E p \in Procs, t \in LinkIds : CreateAttempt(p, t)
    \/ \E p \in Procs : CreateInsert(p)
    \/ \E p \in Procs, t \in LinkIds, b \in PaddedBodies :
          UpdateFind(p, "u1", t, b.matchId, b.type)
    \/ \E p \in Procs : UpdateSave(p)
    \/ \E p \in Procs, t \in LinkIds : PublicFind(p, t)
    \/ \E p \in Procs : PublicSave(p)
    \/ \E p \in Procs : PublicList(p)
    \/ \E p \in Procs : PublicFetch(p)

InitTrim == Start({}, [n \in FeedCollections |-> {SnapFull}])

SpecTrim == InitTrim /\ [][NextTrim]_vars

-----------------------------------------------------------------------------
(* Creates by user u2 next to the stored link of u1: candidates collide with *)
(* it. Every suspended handler is resumed when the database has answered.   *)

NextRetry ==
    \/ \E p \in Procs : CreateLink(p, "u2", M1, "full")
    \/ \E p \in Procs, t \in LinkIds : CreateAttempt(p, t)
    \/ \E p \in Procs : CreateInsert(p)

SpecRetry ==
    /\ InitSeeded
    /\ [][NextRetry]_vars
    /\ \A p \in Procs :
          /\ WF_vars(\E t \in LinkIds : CreateAttempt(p, t))
          /\ WF_vars(CreateInsert(p))

-----------------------------------------------------------------------------
(* One snapshot of any shape in the match collection, read through a link of *)
(* any type and through the direct routes                                    *)

OptionalFields == {"pointsTable", "TeamStats1", "MatchSummary1"}
StoredValue ==
    [pointsTable |-> Rows, TeamStats1 |-> Stats, MatchSummary1 |-> Summary]

\* what the feed can have left in an optional field
Shapes == [OptionalFields -> {"absent", "stored", "null", "zero"}]

ShapedSnapshot(shape) ==
    [ f \in {"matchId", "timestamp"}
            \cup {g \in OptionalFields : shape[g] # "absent"} |->
        CASE f = "matchId" -> M1
          [] f = "timestamp" -> 1
          [] OTHER -> CASE shape[f] = "stored" -> StoredValue[f]
                        [] shape[f] = "null" -> JsonNull
                        [] OTHER -> JsonZero ]

ShapedSnapshots == {ShapedSnapshot(shape) : shape \in Shapes}

InitProject ==
    \E s \in ShapedSnapshots, type \in TypeEnum :
        Start({NewApiLink(1, "u1", "Ab3", M1, type)},
              [n \in FeedCollections |-> {s}])

NextProject ==
    \/ \E p \in Procs : PublicFind(p, "Ab3")
    \/ \E p \in Procs : PublicSave(p)
    \/ \E p \in Procs : PublicList(p)
    \/ \E p \in Procs : PublicFetch(p)
    \/ \E p \in Procs, t \in {"alive_status", "points_table", "full"} :
          LiveList(p, M1, t)
    \/ \E p \in Procs : FullList(p, M1)
    \/ \E p \in Procs : LiveFetch(p)

SpecProject == InitProject /\ [][NextProject]_vars

-----------------------------------------------------------------------------
(* The feed writing snapshots of match m-1 while a 'full' link that names   *)
(* the match as "m_1" is resolved                                           *)

\* a second snapshot with the timestamp of SnapBare
SnapTwin == [matchId |-> M1, timestamp |-> 2, pointsTable |-> Rows]

UnderscoreLink == NewApiLink(1, "u1", "Ab3", M1u, "full")

InitLatest == Start({UnderscoreLink}, NoCollections)

NextLatest ==
    \/ Tick
    \/ \E n \in FeedCollections, s \in FeedSnapshots \cup {SnapTwin} :
          FeedInsert(n, s)
    \/ \E p \in Procs : PublicFind(p, "Ab3")
    \/ \E p \in Procs : PublicSave(p)
    \/ \E p \in Procs : PublicList(p)
    \/ \E p \in Procs : PublicFetch(p)

SpecLatest == InitLatest /\ [][NextLatest]_vars

-----------------------------------------------------------------------------
(* Updates of the stored link and of a linkId nobody has, by its owner and   *)
(* by another user, with complete and incomplete bodies                      *)

EditBodies ==
    { [matchId |-> M1padded, type |-> "full"],
      [matchId |-> M1u, type |-> "alive_status"],
      [matchId |-> Empty, type |-> "full"],
      [matchId |-> M1, type |-> ""],
      [matchId |-> M1, type |-> "bogus"],
      [matchId |-> Blank, type |-> "full"] }

NextUpdate ==
    \/ \E p \in Procs, u \in Users, t \in LinkIds, b \in EditBodies :
          UpdateFind(p, u, t, b.matchId, b.type)
    \/ \E p \in Procs : UpdateSave(p)

SpecUpdate == InitSeeded /\ [][NextUpdate]_vars

-----------------------------------------------------------------------------
(* Two users with one link each: deletes of both links and of a linkId that  *)
(* no link has, next to the list and public resolution                       *)

OtherLink == NewApiLink(2, "u2", "Zk9", M1, "full")

\* linkId path parameters: the stored ones and one that was never generated
PathLinkIds == LinkIds \cup {"Qq0"}

InitDelete ==
    Start({SeedLink, OtherLink}, [n \in FeedCollections |-> {SnapFull}])

NextDelete ==
    \/ \E p \in Procs, u \in Users, t \in PathLinkIds : DeleteFind(p, u, t)
    \/ \E p \in Procs : DeleteRemove(p)
    \/ \E p \in Procs, u \in Users : ListLinks(p, u)
    \/ \E p \in Procs, t \in PathLinkIds : PublicFind(p, t)
    \/ \E p \in Procs : PublicSave(p)
    \/ \E p \in Procs : PublicList(p)
    \/ \E p \in Procs : PublicFetch(p)

SpecDelete == InitDelete /\ [][NextDelete]_vars

-----------------------------------------------------------------------------
(* A fresh database: links are created for match m-1 and resolved while the  *)
(* feed has not written yet, has created the collection, has written         *)

LazyBodies ==
    { [matchId |-> M1, type |-> "points_table"],
      [matchId |-> M1, type |-> "bogus"] }

NextLazy ==
    \/ \E n \in FeedCollections : FeedCreate(n)
    \/ \E n \in FeedCollections : FeedInsert(n, SnapFull)
    \/ \E p \in Procs, b \in LazyBodies : CreateLink(p, "u1", b.matchId, b.type)
    \/ \E p \in Procs, t \in LinkIds : CreateAttempt(p, t)
    \/ \E p \in Procs : CreateInsert(p)
    \/ \E p \in Procs, t \in LinkIds : PublicFind(p, t)
    \/ \E p \in Procs : PublicSave(p)
    \/ \E p \in Procs : PublicList(p)
    \/ \E p \in Procs : PublicFetch(p)

SpecLazy == Init /\ [][NextLazy]_vars

-----------------------------------------------------------------------------
(* The owner creating links and updating them, with types of the enum and   *)
(* others, and with fields missing                                          *)

NextTypes ==
    \/ \E p \in Procs, b \in EditBodies : CreateLink(p, "u1", b.matchId, b.type)
    \/ \E p \in Procs, t \in LinkIds : CreateAttempt(p, t)
    \/ \E p \in Procs : CreateInsert(p)
    \/ \E p \in Procs, t \in LinkIds, b \in EditBodies :
          UpdateFind(p, "u1", t, b.matchId, b.type)
    \/ \E p \in Procs : UpdateSave(p)

SpecTypes == InitSeeded /\ [][NextTypes]_vars

-----------------------------------------------------------------------------
(* Two links for matches out of "m-1", "m_1" and "m-2", resolved next to    *)
(* direct reads                                                             *)

M2 == <<"m", "-", "2">>
LinkMatchIds == {M1, M1u, M2}

InitNames ==
    \E a \in LinkMatchIds, b \in LinkMatchIds :
        Start({NewApiLink(1, "u1", "Ab3", a, "points_table"),
               NewApiLink(2, "u2", "Zk9", b, "full")},
              [n \in FeedCollections |-> {SnapFull}])

NextNames ==
    \/ \E p \in Procs, t \in LinkIds : PublicFind(p, t)
    \/ \E p \in Procs : PublicSave(p)
    \/ \E p \in Procs : PublicList(p)
    \/ \E p \in Procs : PublicFetch(p)
    \/ \E p \in Procs, m \in PathMatchIds : LiveList(p, m, "points_table")
    \/ \E p \in Procs, m \in PathMatchIds : FullList(p, m)
    \/ \E p \in Procs : LiveFetch(p)

SpecNames == InitNames /\ [][NextNames]_vars

-----------------------------------------------------------------------------
(* Two users with one link each, both working on both linkIds, while the    *)
(* link of u1 is resolved                                                   *)

FrameFlags ==
    { [typeof |-> "boolean", value |-> TRUE],
      [typeof |-> "boolean", value |-> FALSE] }

NextFrame ==
    \/ \E p \in Procs, u \in Users, t \in LinkIds, b \in UpdateBodies :
          UpdateFind(p, u, t, b.matchId, b.type)
    \/ \E p \in Procs : UpdateSave(p)
    \/ \E p \in Procs, u \in Users, t \in LinkIds : ToggleFind(p, u, t)
    \/ \E p \in Procs : ToggleSave(p)
    \/ \E p \in Procs, u \in Users, t \in LinkIds, f \in FrameFlags :
          StatusFind(p, u, t, f)
    \/ \E p \in Procs : StatusSave(p)
    \/ \E p \in Procs, u \in Users, t \in LinkIds : DeleteFind(p, u, t)
    \/ \E p \in Procs : DeleteRemove(p)
    \/ \E p \in Procs : PublicFind(p, "Ab3")
    \/ \E p \in Procs : PublicSave(p)
    \/ \E p \in Procs : PublicList(p)
    \/ \E p \in Procs : PublicFetch(p)

SpecFrame == InitDelete /\ [][NextFrame]_vars

-----------------------------------------------------------------------------
(* Vocabulary of the properties *)

PublicRoute == "GET /api/public/:linkId"
CreateRoute == "POST /api/apilinks"
DeleteRoute == "DELETE /api/apilinks/:linkId"
UpdateRoute == "PATCH /api/apilinks/:linkId/update"
ToggleRoute == "PATCH /api/apilinks/:linkId/toggle"
StatusRoute == "PATCH /api/apilinks/:linkId/status"

\* slot p receives a request in this step
Receives(p) ==
    /\ started' = started + 1
    /\ pc'[p] # pc[p] \/ rq'[p] # rq[p] \/ resp'[p] # resp[p]

\* slot p has answered its request
Answered(p) == pc[p] = "idle" /\ resp[p] # NoResponse

\* the same stored document before and after a step
SameDoc(d, e) == d.id = e.id

-----------------------------------------------------------------------------
\* C1: whatever creates have run, also with their lookups and inserts
\* interleaved, no two documents of the apilinks collection have the same
\* linkId.
C1_UniqueLinkId ==
    \A d \in links, e \in links : d.linkId = e.linkId => d = e

\* Two links are stored, and a create whose body is valid has been refused at
\* the insert: its candidate passed the lookup and was taken before the insert.
C1_Witness ==
    /\ Cardinality(links) = 2
    /\ \E p \in Procs :
          /\ Answered(p)
          /\ rq[p].route = CreateRoute
          /\ rq[p].matchId = M1
          /\ rq[p].type = "points_table"
          /\ resp[p] = ServerError

-----------------------------------------------------------------------------
\* C2: two public resolutions of the enabled link, the only requests so far,
\* are both accepted and leave accessCount at its initial value plus two.
C2_NoLostIncrement ==
    ( /\ started = 2
      /\ \A p \in Procs :
            /\ Answered(p)
            /\ rq[p].route = PublicRoute
            /\ rq[p].linkId = SeedLink.linkId )
    => /\ \A p \in Procs : resp[p] # NotFound
       /\ \A d \in links :
             d.linkId = SeedLink.linkId
                => d.accessCount = SeedLink.accessCount + 2

-----------------------------------------------------------------------------
\* C3: a resolution that found the link enabled has, when it answers that the
\* match collection or its snapshot is missing, already stored the count it
\* read plus one and the time it read the clock.  The lookup step computes
\* them from the stored link; the save step that follows stores the count,
\* and, when no other request has written the link since the lookup, the
\* stored count has grown by one and the stored lastAccessed is that time;
\* the two 404 answers about match data are given only by steps after the
\* save.
C3_Lookup(p) ==
    (pc[p] = "idle" /\ pc'[p] = "public.save")
    => \E d \in links :
          /\ d.linkId = rq'[p].linkId
          /\ d.isActive
          /\ apiLink'[p].doc.id = d.id
          /\ apiLink'[p].doc.accessCount = d.accessCount + 1
          /\ apiLink'[p].doc.lastAccessed = now

\* the stored document is still the one the handler read
Unwritten(d, l) ==
    /\ d.id = l.doc.id
    /\ \A f \in AllPaths \ l.modified : d[f] = l.doc[f]
    /\ d.accessCount + 1 = l.doc.accessCount

C3_Save(p) ==
    (pc[p] = "public.save" /\ pc'[p] = "public.listCollections")
    => \E d \in links, e \in links' :
          /\ d.id = apiLink[p].doc.id
          /\ SameDoc(d, e)
          /\ e.accessCount = apiLink[p].doc.accessCount
          /\ Unwritten(d, apiLink[p])
             => /\ e.accessCount = d.accessCount + 1
                /\ e.lastAccessed = apiLink[p].doc.lastAccessed

C3_Answer(p) ==
    /\ (pc[p] = "public.listCollections"
          /\ CollectionName(apiLink[p].doc.matchId) \notin DOMAIN colls)
       => resp'[p] = MatchDataNotFound
    /\ (pc[p] = "public.findOne"
          /\ Documents(CollectionName(apiLink[p].doc.matchId)) = {})
       => resp'[p] = NoMatchData
    /\ (rq'[p].route = PublicRoute /\ resp'[p] # resp[p]
          /\ resp'[p] \in {MatchDataNotFound, NoMatchData})
       => pc[p] \in {"public.listCollections", "public.findOne"}

\* C3: every step of a resolution counts before it answers that the match
\* data is missing (lookup, save and answer as described above).
C3_CountedBeforeNotFound ==
    [][\A p \in Procs :
          (pc'[p] # pc[p]) => C3_Lookup(p) /\ C3_Save(p) /\ C3_Answer(p)]_vars

\* The first resolution found no collection, the second an empty one; both
\* were counted.
C3_Witness ==
    /\ started = 2
    /\ \E p \in Procs, q \in Procs :
          /\ Answered(p) /\ resp[p] = MatchDataNotFound
          /\ Answered(q) /\ resp[q] = NoMatchData
    /\ \E d \in links : d.accessCount = 2 /\ d.lastAccessed # NullDate

-----------------------------------------------------------------------------
\* C4: a public resolution whose linkId belongs to a disabled link, or to no
\* link at all, is answered at once with status 404 and the body
\* {success: false, error: 'Not found'}, the same in both cases, and leaves
\* the apilinks collection as it was.
C4_DisabledLikeUnknown ==
    [][\A p \in Procs :
          ( /\ Receives(p)
            /\ rq'[p].route = PublicRoute
            /\ \A d \in links : d.linkId = rq'[p].linkId => ~d.isActive )
          => /\ pc'[p] = "idle"
             /\ resp'[p].status = 404
             /\ resp'[p].body = [success |-> FALSE, error |-> "Not found"]
             /\ links' = links]_vars

\* One slot asked for the disabled link, the other for a linkId no link has.
C4_Witness ==
    \E p \in Procs, q \in Procs :
       /\ Answered(p) /\ rq[p].route = PublicRoute
       /\ \E d \in links : d.linkId = rq[p].linkId /\ ~d.isActive
       /\ Answered(q) /\ rq[q].route = PublicRoute
       /\ \A d \in links : d.linkId # rq[q].linkId
       /\ resp[p] = NotFound
       /\ resp[q] = resp[p]

-----------------------------------------------------------------------------
\* C6: every toggle or status set that answers "disabled" has a moment at
\* which the stored link is disabled: its save when it writes the flag, its
\* lookup when the link was disabled already and the save has nothing to
\* write.  From then on a resolution received while the stored link is
\* disabled answers 404 'Not found' and changes neither accessCount nor
\* lastAccessed, and the stored link becomes enabled only by the save of a
\* toggle or status set of its owner.
C6_Disables(p) ==
    /\ ( /\ pc[p] = "idle"
         /\ pc'[p] \in {"toggle.save", "status.save"}
         /\ ~apiLink'[p].doc.isActive
         /\ "isActive" \notin apiLink'[p].modified )
       => \E d \in links : d.id = apiLink'[p].doc.id /\ ~d.isActive
    /\ ( /\ pc[p] \in {"toggle.save", "status.save"}
         /\ resp'[p].status = 200 )
       => /\ resp'[p].body.data.isActive = apiLink[p].doc.isActive
          /\ ("isActive" \in apiLink[p].modified /\ ~apiLink[p].doc.isActive)
             => \E e \in links' : e.id = apiLink[p].doc.id /\ ~e.isActive

C6_Refused(p) ==
    ( /\ Receives(p)
      /\ rq'[p].route = PublicRoute
      /\ \E d \in links : d.linkId = rq'[p].linkId /\ ~d.isActive )
    => /\ resp'[p] = NotFound
       /\ \A d \in links : \E e \in links' :
             /\ SameDoc(d, e)
             /\ e.accessCount = d.accessCount
             /\ e.lastAccessed = d.lastAccessed

C6_EnabledByOwnerOnly ==
    \A d \in links, e \in links' :
       (SameDoc(d, e) /\ ~d.isActive /\ e.isActive)
       => \E p \in Procs :
             /\ pc[p] \in {"toggle.save", "status.save"}
             /\ pc'[p] = "idle"
             /\ apiLink[p].doc.id = d.id
             /\ rq[p].userId = d.userId

\* C6: a disable takes effect before it is answered; a disabled link refuses
\* every resolution it receives and is enabled again by its owner only.
C6_DisabledStaysNotFound ==
    [][/\ \A p \in Procs : C6_Disables(p) /\ C6_Refused(p)
       /\ C6_EnabledByOwnerOnly]_vars

\* The owner's status set has disabled the enabled link, and a resolution
\* received after its answer was refused and left the telemetry alone.
C6_Witness ==
    /\ started = 2
    /\ links = {[SeedLink EXCEPT !.isActive = FALSE]}
    /\ \E p \in Procs, q \in Procs :
          /\ Answered(p) /\ rq[p].route = StatusRoute
          /\ resp[p].status = 200 /\ ~resp[p].body.data.isActive
          /\ Answered(q) /\ rq[q].route = PublicRoute /\ resp[q] = NotFound
          /\ rq[q].linkId = SeedLink.linkId

-----------------------------------------------------------------------------
\* C7: no step lowers the accessCount of a stored link or moves its
\* lastAccessed to an earlier time.
C7_TelemetryMonotonic ==
    [][\A d \in links, e \in links' :
          SameDoc(d, e)
          => /\ e.accessCount >= d.accessCount
             /\ e.lastAccessed >= d.lastAccessed]_vars

-----------------------------------------------------------------------------
\* C5: delete, update, toggle and status set called by a user with the linkId
\* of a link that belongs to somebody else are answered at once, never with
\* 403: with 400 when the body is invalid, otherwise with 404 'API link not
\* found'; the apilinks collection stays as it was.
OwnerRoutes == {DeleteRoute, UpdateRoute, ToggleRoute, StatusRoute}

\* the bodies the handlers refuse before they look the link up
InvalidBody(r) ==
    \/ r.route = UpdateRoute /\ (r.matchId = Empty \/ r.type \notin TypeEnum)
    \/ r.route = StatusRoute /\ r.isActive.typeof # "boolean"

\* C5: a user's delete, update, toggle or status set on another user's link
\* is answered 400 or 404, never 403, and changes no stored link.
C5_ForeignLinkNotFound ==
    [][\A p \in Procs :
          ( /\ Receives(p)
            /\ rq'[p].route \in OwnerRoutes
            /\ \E d \in links :
                  d.linkId = rq'[p].linkId /\ d.userId # rq'[p].userId )
          => /\ pc'[p] = "idle"
             /\ resp'[p].status # 403
             /\ IF InvalidBody(rq'[p])
                THEN resp'[p].status = 400
                ELSE resp'[p] = LinkNotFound
             /\ links' = links]_vars

\* u2 has tried to delete and to toggle u1's link: both got 404 and the link
\* is as it was created.
C5_Witness ==
    /\ links = {SeedLink}
    /\ \E p \in Procs, q \in Procs :
          /\ Answered(p) /\ rq[p].route = DeleteRoute /\ rq[p].userId = "u2"
          /\ resp[p] = LinkNotFound
          /\ Answered(q) /\ rq[q].route = ToggleRoute /\ rq[q].userId = "u2"
          /\ resp[q] = LinkNotFound

-----------------------------------------------------------------------------
\* C8: accessCount and lastAccessed of a stored link change only in the save
\* step of a public resolution of that link, which follows a lookup that
\* found it enabled: no step of update, toggle, status set, list, the direct
\* reads, or of a resolution refused at the lookup changes them.
C8_TelemetryOnlyByResolver ==
    [][\A d \in links, e \in links' :
          ( /\ SameDoc(d, e)
            /\ e.accessCount # d.accessCount \/ e.lastAccessed # d.lastAccessed )
          => \E p \in Procs :
                /\ rq[p].route = PublicRoute
                /\ pc[p] = "public.save"
                /\ pc'[p] = "public.listCollections"
                /\ apiLink[p].doc.id = d.id]_vars

\* The link has been resolved once and then updated by its owner: the count
\* of the resolution is still there.
C8_Witness ==
    /\ \E d \in links :
          d.accessCount = 1 /\ d.lastAccessed # NullDate /\ d.type = "full"
    /\ \E p \in Procs :
          Answered(p) /\ rq[p].route = UpdateRoute /\ resp[p].status = 200

-----------------------------------------------------------------------------
\* C10: toggle takes no body and is never refused as invalid; its lookup
\* prepares the negation of the stored isActive and its save stores it, so
\* that it flips the flag when no other request changed it in between; two
\* toggles of the owner one after the other, the only requests so far, leave
\* isActive as it was before the first.
C10_Flips(p) ==
    /\ rq'[p].route = ToggleRoute => resp'[p].status # 400
    /\ (pc[p] = "idle" /\ pc'[p] = "toggle.save")
       => \E d \in links :
             /\ d.id = apiLink'[p].doc.id
             /\ apiLink'[p].doc.isActive = ~d.isActive
    /\ (pc[p] = "toggle.save" /\ resp'[p].status = 200)
       => \E d \in links, e \in links' :
             /\ d.id = apiLink[p].doc.id
             /\ SameDoc(d, e)
             /\ e.isActive = apiLink[p].doc.isActive
             /\ d.isActive # apiLink[p].doc.isActive => e.isActive = ~d.isActive

\* one toggle answered "disabled", the other "enabled": the second one began
\* after the first had saved
C10_TwoInARow ==
    /\ started = 2
    /\ \A p \in Procs :
          /\ Answered(p)
          /\ rq[p].route = ToggleRoute
          /\ rq[p].userId = SeedLink.userId
          /\ resp[p].status = 200
    /\ \E p \in Procs, q \in Procs :
          resp[p].body.data.isActive # resp[q].body.data.isActive

\* C10: each toggle flips the flag it read, and after two of them in a row
\* the link is enabled as it was before the first.
C10_ToggleTwice ==
    /\ [](C10_TwoInARow => \A d \in links : d.isActive = SeedLink.isActive)
    /\ [][\A p \in Procs : (pc'[p] # pc[p] \/ resp'[p] # resp[p]) => C10_Flips(p)]_vars

C10_Witness ==
    /\ C10_TwoInARow
    /\ links = {SeedLink}

-----------------------------------------------------------------------------
\* C9: a matchId given with surrounding whitespace is stored without it, and
\* so is the same link as the one the unpadded matchId gives: no stored
\* matchId starts or ends with whitespace; the matchId a successful create or
\* update stores and answers with is the request's matchId without its
\* leading and trailing whitespace; and the collection a resolution reads is
\* named after the stored matchId as it is.
Unpadded(t) ==
    /\ t # <<>>
    /\ t[1] \notin Whitespace
    /\ t[Len(t)] \notin Whitespace

\* t is m without its surrounding whitespace
Strips(m, t) ==
    /\ Unpadded(t)
    /\ \E a \in 0..Len(m), b \in 0..Len(m) :
          /\ a + Len(t) + b = Len(m)
          /\ \A i \in 1..Len(m) :
                IF i <= a \/ i > a + Len(t)
                THEN m[i] \in Whitespace
                ELSE m[i] = t[i - a]

C9_Stored(p) ==
    ( /\ Answered(p)
      /\ rq[p].route \in {CreateRoute, UpdateRoute}
      /\ resp[p].status \in {200, 201} )
    => Strips(rq[p].matchId, resp[p].body.data.matchId)

C9_Resolved(p) ==
    pc[p] \in {"public.listCollections", "public.findOne"}
    => PublicCollection(apiLink[p]) = CollectionName(apiLink[p].doc.matchId)

\* C9: stored matchIds are unpadded, a create or update stores the request's
\* matchId stripped, and the resolver names the collection after it.
C9_TrimmedMatchId ==
    /\ \A d \in links : Unpadded(d.matchId)
    /\ \A p \in Procs : C9_Stored(p) /\ C9_Resolved(p)

\* A link created with " m-1 " is stored as "m-1" and has been resolved to
\* the snapshot of collection match_m_1.
C9_Witness ==
    \E p \in Procs, q \in Procs :
       /\ Answered(p) /\ rq[p].route = CreateRoute
       /\ rq[p].matchId = M1padded /\ resp[p].status = 201
       /\ \E d \in links : d.linkId = resp[p].body.data.linkId /\ d.matchId = M1
       /\ Answered(q) /\ rq[q].route = PublicRoute
       /\ rq[q].linkId = resp[p].body.data.linkId
       /\ resp[q] = MatchData(SnapFull, Project(SnapFull, "points_table"))

-----------------------------------------------------------------------------
\* the linkIds of the stored links
StoredLinkIds == {d.linkId : d \in links}

\* a turn of the loop: a candidate that is not stored ends the loop and goes
\* to the insert; a stored one is counted and, before the tenth, retried; the
\* tenth collision answers 500 and leaves the collection alone
C11_Turn(p) ==
    (pc[p] = "create.findOne" /\ (pc'[p] # pc[p] \/ gen'[p] # gen[p]))
    => /\ links' = links
       /\ \/ /\ pc'[p] = "create.insert"
             /\ gen'[p].linkId \notin StoredLinkIds
             /\ gen'[p].attempts = gen[p].attempts + 1
          \/ /\ pc'[p] = "create.findOne"
             /\ gen'[p].linkId \in StoredLinkIds
             /\ gen'[p].attempts = gen[p].attempts + 1
             /\ gen'[p].attempts < MaxAttempts
          \/ /\ pc'[p] = "idle"
             /\ gen[p].attempts = MaxAttempts - 1
             /\ resp'[p] = NoUniqueLinkId

\* the insert uses the candidate the loop ended with
C11_Insert(p) ==
    (pc[p] = "create.insert" /\ pc'[p] = "idle")
    => IF resp'[p].status = 201
       THEN /\ resp'[p].body.data.linkId = gen[p].linkId
            /\ links' = links \cup {resp'[p].body.data}
            /\ gen[p].linkId \notin StoredLinkIds
       ELSE links' = links

\* C11: a create makes at most 10 generate-and-check attempts; the loop ends
\* at the first candidate that is not stored, which is the one inserted; ten
\* collisions answer 500 'Failed to generate unique link ID' and store
\* nothing; and every create that entered the loop answers.
C11_BoundedRetry ==
    /\ [](\A p \in Procs : gen[p].attempts <= MaxAttempts)
    /\ [][\A p \in Procs : C11_Turn(p) /\ C11_Insert(p)]_vars
    /\ \A p \in Procs : (pc[p] = "create.findOne") ~> (pc[p] = "idle")

\* One create got Zk9 after collisions with Ab3, another collided ten times.
C11_Witness ==
    /\ Cardinality(links) = 2
    /\ \E p \in Procs, q \in Procs :
          /\ Answered(p) /\ resp[p].status = 201
          /\ resp[p].body.data.linkId = "Zk9"
          /\ Answered(q) /\ resp[q] = NoUniqueLinkId

-----------------------------------------------------------------------------
LiveRoute == "GET /api/livescore/:matchId"
FullRoute == "GET /api/livescore/:matchId/full"

\* snapshot.field ?? fallback: the field as stored unless absent or null
Coalesce(doc, field, fallback) ==
    IF field \in DOMAIN doc /\ doc[field] # JsonNull
    THEN doc[field]
    ELSE fallback

\* the reference projector
RefProject(snapshot, viewType) ==
    CASE viewType = "points_table" ->
           [ pointsTable |-> Coalesce(snapshot, "pointsTable", EmptyList),
             matchSummary |-> Coalesce(snapshot, "MatchSummary1", EmptyObject) ]
      [] viewType = "alive_status" ->
           [ teamStats |-> Coalesce(snapshot, "TeamStats1", EmptyList),
             matchSummary |-> Coalesce(snapshot, "MatchSummary1", EmptyObject) ]
      [] viewType = "full" -> snapshot

\* the view type a request is answered with
ViewType(p) ==
    IF rq[p].route = PublicRoute
    THEN (CHOOSE d \in links : d.linkId = rq[p].linkId).type
    ELSE rq[p].type

\* C12: every read that answers with data, through the link or directly,
\* answers with what the reference projector gives for the stored snapshot
\* and the view type: the fields as stored, the empty list or the empty
\* object for those that are absent, the whole snapshot for 'full'.
C12_ProjectionAsReference ==
    \A p \in Procs :
       ( /\ Answered(p)
         /\ rq[p].route \in {PublicRoute, LiveRoute, FullRoute}
         /\ resp[p].status = 200
         /\ ViewType(p) \in TypeEnum )
       => \E s \in Documents(CollectionName(M1)) :
             resp[p].body.data = RefProject(s, ViewType(p))

-----------------------------------------------------------------------------
\* C13: a resolution that answers with data answers with a snapshot that is
\* in the link's collection at the fetch and has the greatest timestamp of
\* all snapshots there; matchId and timestamp of the answer are that
\* snapshot's fields.
C13_LatestSnapshot ==
    [][\A p \in Procs :
          (pc[p] = "public.findOne" /\ resp'[p].status = 200)
          => \E s \in Documents(CollectionName(apiLink[p].doc.matchId)) :
                /\ \A t \in Documents(CollectionName(apiLink[p].doc.matchId)) :
                      t.timestamp <= s.timestamp
                /\ resp'[p].body.data = s
                /\ resp'[p].body.matchId = s.matchId
                /\ resp'[p].body.timestamp = s.timestamp]_vars

\* Both the older and a newer snapshot are stored; the resolution at time 1
\* answered with the newer one, whose matchId is not the link's.
C13_Witness ==
    /\ now = 1
    /\ \E s \in Documents(CollectionName(M1)), t \in Documents(CollectionName(M1)) :
          s.timestamp < t.timestamp
    /\ \E p \in Procs :
          /\ Answered(p) /\ rq[p].route = PublicRoute /\ resp[p].status = 200
          /\ resp[p].body.timestamp = 2
          /\ resp[p].body.matchId = M1
          /\ \A d \in links : d.matchId # resp[p].body.matchId

-----------------------------------------------------------------------------
\* an update is refused at once: with 400 when matchId or type is missing or
\* type is not one of the three, else with 404 when the caller owns no link
\* with that linkId; no failing update changes the collection
C14_Rejects(p) ==
    /\ (Receives(p) /\ rq'[p].route = UpdateRoute)
       => IF rq'[p].matchId = Empty \/ rq'[p].type \notin TypeEnum
          THEN resp'[p].status = 400 /\ pc'[p] = "idle"
          ELSE IF \A d \in links :
                     d.linkId # rq'[p].linkId \/ d.userId # rq'[p].userId
          THEN resp'[p] = LinkNotFound /\ pc'[p] = "idle"
          ELSE pc'[p] = "update.save"
    /\ ( /\ rq'[p].route = UpdateRoute
         /\ resp'[p] # resp[p]
         /\ resp'[p].status # 200 )
       => links' = links

\* a successful update leaves the link with the request's matchId, trimmed,
\* and the request's type
C14_Applies(p) ==
    (pc[p] = "update.save" /\ resp'[p].status = 200)
    => \E e \in links' :
          /\ e.id = apiLink[p].doc.id
          /\ Strips(rq[p].matchId, e.matchId)
          /\ e.type = rq[p].type

\* C14: update answers 400 for a missing matchId or type and for a type
\* outside the three, 404 for a link the caller does not own, changes
\* nothing when it fails, and when it succeeds the stored link has the
\* trimmed new matchId and the new type.
C14_UpdateContract ==
    [][\A p \in Procs : C14_Rejects(p) /\ C14_Applies(p)]_vars

-----------------------------------------------------------------------------
\* a status set whose isActive is not a boolean answers 400 and changes
\* nothing; one with the boolean b by the owner goes on with b in its document
C15_Checks(p) ==
    (Receives(p) /\ rq'[p].route = StatusRoute)
    => IF rq'[p].isActive.typeof # "boolean"
       THEN /\ resp'[p] = NotBoolean
            /\ pc'[p] = "idle"
            /\ links' = links
       ELSE pc'[p] = "status.save"
            => /\ apiLink'[p].doc.isActive = rq'[p].isActive.value
               /\ "isActive" \notin apiLink'[p].modified
                  => \E d \in links :
                        /\ d.id = apiLink'[p].doc.id
                        /\ d.isActive = rq'[p].isActive.value

\* its save stores b when the link it read had the other value
C15_Sets(p) ==
    (pc[p] = "status.save" /\ resp'[p].status = 200)
    => /\ resp'[p].body.data.isActive = rq[p].isActive.value
       /\ "isActive" \in apiLink[p].modified
          => \E e \in links' :
                /\ e.id = apiLink[p].doc.id
                /\ e.isActive = rq[p].isActive.value

\* the owner has sent the same status set twice and nothing else
C15_Repeated(b) ==
    /\ started = 2
    /\ \A p \in Procs :
          /\ Answered(p)
          /\ rq[p].route = StatusRoute
          /\ rq[p].userId = SeedLink.userId
          /\ rq[p].isActive = [typeof |-> "boolean", value |-> b]
          /\ resp[p].status = 200

\* C15: a status set with a non-boolean isActive answers 400 and leaves the
\* link as it is; with a boolean b by the owner the stored flag is b, by the
\* save or because it was b already, whatever it was before; and after the
\* same status set sent twice the flag is b.
C15_StatusSet ==
    /\ [][\A p \in Procs : C15_Checks(p) /\ C15_Sets(p)]_vars
    /\ [](\A b \in BOOLEAN :
             C15_Repeated(b) => \A d \in links : d.isActive = b)

\* The enabled link has been disabled by a status set and the same call has
\* been repeated.
C15_Witness ==
    /\ C15_Repeated(FALSE)
    /\ links = {[SeedLink EXCEPT !.isActive = FALSE]}

-----------------------------------------------------------------------------
ListRoute == "GET /api/apilinks"

\* the links with this linkId that this user owns
Owned(linkId, userId) ==
    {d \in links : d.linkId = linkId /\ d.userId = userId}

\* a delete that finds no link of the caller with the linkId answers 404 and
\* changes nothing; one that found it removes that link and no other
C16_Removes(p) ==
    /\ (Receives(p) /\ rq'[p].route = DeleteRoute)
       => IF Owned(rq'[p].linkId, rq'[p].userId) = {}
          THEN resp'[p] = LinkNotFound /\ pc'[p] = "idle" /\ links' = links
          ELSE pc'[p] = "delete.findByIdAndDelete" /\ links' = links
    /\ (pc[p] = "delete.findByIdAndDelete" /\ pc'[p] # pc[p])
       => /\ resp'[p] = Deleted
          /\ links' = links \ Owned(rq[p].linkId, rq[p].userId)

\* what is answered about a linkId that is not stored
C16_Absent(p) ==
    /\ (Receives(p) /\ rq'[p].route = ListRoute)
       => resp'[p].body.data.items = {d \in links : d.userId = rq'[p].userId}
    /\ ( /\ Receives(p)
         /\ rq'[p].route = PublicRoute
         /\ \A d \in links : d.linkId # rq'[p].linkId )
       => resp'[p] = NotFound /\ links' = links

\* C16: the owner's delete removes the link with that linkId and owner and
\* nothing else; a removed link does not come back, the owner's list shows
\* the stored links only, a public resolution of a linkId that is not stored
\* answers 404 'Not found', and a delete of a linkId the caller has no link
\* for (deleted before, never generated, somebody else's) answers 404 'API
\* link not found' and changes nothing.
C16_DeleteOnce ==
    [][/\ \A p \in Procs : C16_Removes(p) /\ C16_Absent(p)
       /\ {d.id : d \in links'} \subseteq {d.id : d \in links}]_vars

\* u1's link has been deleted, the same delete sent again got 404, and the
\* link of u2 is as it was.
C16_Witness ==
    /\ links = {OtherLink}
    /\ \E p \in Procs, q \in Procs :
          /\ Answered(p) /\ rq[p].route = DeleteRoute
          /\ rq[p].linkId = SeedLink.linkId /\ rq[p].userId = SeedLink.userId
          /\ resp[p] = Deleted
          /\ Answered(q) /\ rq[q] = rq[p]
          /\ resp[q] = LinkNotFound

-----------------------------------------------------------------------------
\* what a create answers depends on its body and on the stored linkIds
\* only, whatever match collections there are
C17_Creates(p) ==
    /\ (Receives(p) /\ rq'[p].route = CreateRoute)
       => IF rq'[p].matchId # Empty /\ rq'[p].type \in TypeEnum
          THEN pc'[p] = "create.findOne"
          ELSE resp'[p].status = 400
    /\ (pc[p] = "create.insert" /\ pc'[p] # pc[p])
       => IF gen[p].linkId \notin StoredLinkIds /\ Unpadded(Trim(rq[p].matchId))
          THEN /\ resp'[p].status = 201
               /\ resp'[p].body.data \in links'
          ELSE resp'[p] = ServerError

\* the collection of the link a resolution works on, and its documents
C17_Name(p) == CollectionName(apiLink[p].doc.matchId)
C17_Stored(p) ==
    IF C17_Name(p) \in DOMAIN colls THEN colls[C17_Name(p)] ELSE {}

\* the resolver looks for the match: 404 while the collection is absent or
\* empty, data once there is a snapshot; it leaves the link's matchId, type
\* and isActive alone
C17_Resolves(p) ==
    /\ (pc[p] = "public.listCollections" /\ pc'[p] # pc[p])
       => IF C17_Name(p) \in DOMAIN colls
          THEN pc'[p] = "public.findOne"
          ELSE resp'[p] = MatchDataNotFound
    /\ (pc[p] = "public.findOne" /\ pc'[p] # pc[p])
       => IF C17_Stored(p) = {}
          THEN resp'[p] = NoMatchData
          ELSE /\ resp'[p].status = 200
               /\ resp'[p].body.matchId \in {s.matchId : s \in C17_Stored(p)}
    /\ (rq'[p].route = PublicRoute /\ (pc'[p] # pc[p] \/ resp'[p] # resp[p]))
       => \A d \in links : \E e \in links' :
             /\ SameDoc(d, e)
             /\ e.matchId = d.matchId
             /\ e.type = d.type
             /\ e.isActive = d.isActive

\* C17: a create with a valid body is never refused for a match that has no
\* collection: its answer depends on the body and the stored linkIds only;
\* the resolver is where the match is looked for, answering 404 while the
\* collection is absent or empty and with data once the feed has written,
\* without changing the link's matchId, type or isActive.
C17_LazyExistence ==
    [][\A p \in Procs :
          C17_Creates(p) /\ C17_Resolves(p)]_vars

\* The link has been created and resolved before the feed wrote (404), and
\* resolved again after (200); it is as created but for its telemetry.
C17_Witness ==
    /\ started = 3
    /\ \E d \in links :
          /\ [d EXCEPT !.accessCount = 0, !.lastAccessed = NullDate]
                = NewApiLink(1, "u1", d.linkId, M1, "points_table")
          /\ d.accessCount = 2
          /\ \E p \in Procs, q \in Procs :
                /\ Answered(p) /\ rq[p].route = PublicRoute
                /\ rq[p].linkId = d.linkId
                /\ resp[p] = MatchDataNotFound
                /\ Answered(q) /\ rq[q].route = PublicRoute
                /\ rq[q].linkId = d.linkId
                /\ resp[q].status = 200

-----------------------------------------------------------------------------
\* a create or update without matchId or type, or with a type outside the
\* three, is answered 400 at once and changes nothing
C18_Refuses(p) ==
    ( /\ Receives(p)
      /\ rq'[p].route \in {CreateRoute, UpdateRoute}
      /\ \/ rq'[p].matchId = Empty
         \/ rq'[p].type \notin {"full", "alive_status", "points_table"} )
    => /\ resp'[p].status = 400
       /\ pc'[p] = "idle"
       /\ links' = links

\* C18: every stored link has one of the types full, alive_status and
\* points_table, and creates and updates with another type or with a missing
\* matchId or type are answered 400 and leave the collection as it is.
C18_ClosedTypes ==
    /\ [](\A d \in links : d.type \in {"full", "alive_status", "points_table"})
    /\ [][\A p \in Procs : C18_Refuses(p)]_vars

\* A create and an update with type 'bogus' have both been answered 400, after
\* an update that changed the type of the stored link.
C18_Witness ==
    /\ started = 3
    /\ links = {[SeedLink EXCEPT !.matchId = M1u, !.type = "alive_status"]}
    /\ \E p \in Procs, q \in Procs :
          /\ Answered(p) /\ rq[p].route = CreateRoute
          /\ rq[p].type = "bogus" /\ resp[p] = InvalidType
          /\ Answered(q) /\ rq[q].route = UpdateRoute
          /\ rq[q].type = "bogus" /\ resp[q] = InvalidType

-----------------------------------------------------------------------------
\* name is 'match_' followed by t with every hyphen replaced by an underscore
C19_NamedAfter(name, t) ==
    /\ Len(name) = Len(t) + 6
    /\ SubSeq(name, 1, 6) = <<"m", "a", "t", "c", "h", "_">>
    /\ \A i \in 1..Len(t) :
          name[i + 6] = IF t[i] = "-" THEN "_" ELSE t[i]

\* slot p is at the collection of the link it resolves
C19_Reads(p) == pc[p] \in {"public.listCollections", "public.findOne"}

\* C19: the collection a resolution reads is named 'match_' followed by the
\* link's matchId with every hyphen replaced by an underscore, and two
\* resolutions of links whose matchIds differ read different collections.
C19_ReversibleName ==
    /\ \A p \in Procs :
          C19_Reads(p)
          => C19_NamedAfter(PublicCollection(apiLink[p]), apiLink[p].doc.matchId)
    /\ \A p \in Procs, q \in Procs :
          ( /\ C19_Reads(p)
            /\ C19_Reads(q)
            /\ apiLink[p].doc.matchId # apiLink[q].doc.matchId )
          => PublicCollection(apiLink[p]) # PublicCollection(apiLink[q])

\* t has no underscore of its own
C19_Hyphenated(t) == \A i \in 1..Len(t) : t[i] # "_"

\* C19, amended: the collection a resolution reads is named 'match_' followed
\* by the link's matchId with every hyphen replaced by an underscore, and two
\* resolutions of links whose matchIds differ and contain no underscore read
\* different collections.
C19_NameOfHyphenated ==
    /\ \A p \in Procs :
          C19_Reads(p)
          => C19_NamedAfter(PublicCollection(apiLink[p]), apiLink[p].doc.matchId)
    /\ \A p \in Procs, q \in Procs :
          ( /\ C19_Reads(p)
            /\ C19_Reads(q)
            /\ apiLink[p].doc.matchId # apiLink[q].doc.matchId
            /\ C19_Hyphenated(apiLink[p].doc.matchId)
            /\ C19_Hyphenated(apiLink[q].doc.matchId) )
          => PublicCollection(apiLink[p]) # PublicCollection(apiLink[q])

\* The links for "m-1" and "m-2" are being resolved, one in match_m_1 and
\* one in match_m_2.
C19_Witness ==
    \E p \in Procs, q \in Procs :
       /\ C19_Reads(p) /\ apiLink[p].doc.matchId = M1
       /\ PublicCollection(apiLink[p]) = <<"m", "a", "t", "c", "h", "_", "m", "_", "1">>
       /\ C19_Reads(q) /\ apiLink[q].doc.matchId = M2
       /\ PublicCollection(apiLink[q]) = <<"m", "a", "t", "c", "h", "_", "m", "_", "2">>

-----------------------------------------------------------------------------
\* the fields of a link that belong to its owner
OwnerFields == {"userId", "linkId", "matchId", "type", "isActive"}

\* C20: no step of a public resolution adds or removes a stored link or
\* changes the linkId, userId, matchId, type or isActive of one, whatever the
\* owner's update, toggle, status set or delete did to the link between the
\* resolver's lookup and its save.
C20_ResolverKeepsOwnerFields ==
    [][\A p \in Procs :
          (rq'[p].route = PublicRoute /\ (pc'[p] # pc[p] \/ resp'[p] # resp[p]))
          => /\ {d.id : d \in links'} = {d.id : d \in links}
             /\ \A d \in links, e \in links' :
                   SameDoc(d, e) => \A f \in OwnerFields : e[f] = d[f]]_vars

\* The link was deleted between a resolver's lookup and its save: the save
\* failed and the link is gone.
C20_Witness ==
    /\ links = {}
    /\ \E p \in Procs, q \in Procs :
          /\ Answered(p) /\ rq[p].route = PublicRoute /\ resp[p] = ServerError
          /\ Answered(q) /\ rq[q].route = DeleteRoute /\ resp[q] = Deleted

-----------------------------------------------------------------------------
\* the fields an owner's request may change in the link it names
C21_Own(route) ==
    IF route = UpdateRoute THEN {"matchId", "type"}
    ELSE IF route \in {ToggleRoute, StatusRoute} THEN {"isActive"}
    ELSE {}

\* the link the request of slot p names: its linkId, owned by the caller
C21_Targets(p, d) ==
    d.linkId = rq'[p].linkId /\ d.userId = rq'[p].userId

\* a step of an owner's request in slot p: every other link stays as it is,
\* the named link changes in the request's own fields only, and only a
\* delete removes a link, the one it names
C21_Frame(p) ==
    ( /\ rq'[p].route \in OwnerRoutes
      /\ pc'[p] # pc[p] \/ resp'[p] # resp[p] )
    => /\ \A d \in links :
             \/ \E e \in links' :
                   /\ SameDoc(d, e)
                   /\ \A f \in AllPaths \ C21_Own(rq'[p].route) : e[f] = d[f]
                   /\ ~C21_Targets(p, d) => e = d
             \/ /\ rq'[p].route = DeleteRoute
                /\ C21_Targets(p, d)
                /\ \A e \in links' : ~SameDoc(d, e)
       /\ {e.id : e \in links'} \subseteq {d.id : d \in links}

====
